---- MODULE Spec2Model ----
(***************************************************************************)
(* ServiceRegistryClient (src/src/utils/serviceRegistry.js): a process-    *)
(* wide singleton that registers the local service with a registry,        *)
(* resolves service names to URLs and keeps the registration alive with a  *)
(* setInterval heartbeat.  The model follows Node's run-to-completion      *)
(* semantics: every action is one synchronous stretch of code, from a call *)
(* or a callback up to the next await.                                     *)
(***************************************************************************)
EXTENDS Integers, Naturals, Sequences, FiniteSets, Bags, TLC

(* ---------------------------- bounds ----------------------------------- *)
MaxConstruct == 2
MaxInit == 2
MaxHeartbeats == 2
MaxGetUrl == 2

(* ------------------------ values of the program ------------------------ *)
\* null, for object references and timer handles (real ones start at 1)
Null == 0

\* what a template literal renders for a property that is not defined
Undefined == "undefined"

\* service names a caller may ask getUrl for
ServiceNames == {"orders", "users"}

\* process.env as dotenv leaves it (README: PORT and ATLAS_URI)
EnvPorts == {"5000"}

VARIABLES
    env,              \* process.env, read once by config.js
    instance,         \* static ServiceRegistryClient.instance
    nextObj,          \* the next object `new` allocates as `this`
    heap,             \* fields of the objects the constructor initialised
    refs,             \* references handed to callers by new / getInstance()
    initCalls,        \* initialise() calls started
    inflight,         \* bag of the HTTP requests issued and not yet answered
    sent,             \* requests issued so far, by kind
    activeTimers,     \* intervals scheduled in the runtime (setInterval)
    nextTimer,        \* the next handle setInterval returns
    urlCalls,         \* getUrl() calls started
    ret,              \* outcome of the call or callback that completed last
    stopFinal,        \* stopHeartbeat() was called, no initialise() since
    okSinceStop,      \* an initialise() succeeded, no stopHeartbeat() since
    registered        \* register POSTs the registry answered with 2xx

vars == <<env, instance, nextObj, heap, refs, initCalls, inflight, sent,
          activeTimers, nextTimer, urlCalls, ret, stopFinal,
          okSinceStop, registered>>

(* ------------------------------ config.js ------------------------------ *)
\* module.exports of config.js
config == [PORT |-> env.PORT, MONGODB_URI |-> env.ATLAS_URI]

\* property read obj.key: undefined when the object has no such property
Prop(obj, key) == IF key \in DOMAIN obj THEN obj[key] ELSE Undefined

(* ------------------------------- errors -------------------------------- *)
\* new Error(message)
Error(message) == [name |-> "Error", message |-> message]

\* new CustomError(message, statusCode, isOperational) of ./error
CustomError(message, statusCode, isOperational) ==
    [name |-> "CustomError", message |-> message,
     statusCode |-> statusCode, isOperational |-> isOperational]

NoError == [name |-> "none", message |-> ""]

\* error.isOperational, undefined (falsy) on a plain Error
IsOperational(e) == "isOperational" \in DOMAIN e /\ e.isOperational

(* ------------------------- axios and the network ----------------------- *)
NoBody == [serviceName |-> "", host |-> "", port |-> "", metadata |-> {}]
NoData == [host |-> "", port |-> 0, isNull |-> TRUE]

\* payloads of a 2xx discovery answer
DiscoverData ==
    { [host |-> "10.0.0.5", port |-> 8080, isNull |-> FALSE],
      [host |-> "registry.local", port |-> 80, isNull |-> FALSE] }

\* a 2xx answer: axios resolves with response.data
OkResponse(data) ==
    [ok |-> TRUE, hasResponse |-> TRUE, status |-> 200,
     message |-> "", data |-> data]

\* a non-2xx answer: axios rejects with error.response.status set
StatusError(status) ==
    [ok |-> FALSE, hasResponse |-> TRUE, status |-> status,
     message |-> "Request failed with status code " \o ToString(status),
     data |-> NoData]

\* no answer at all: axios rejects with error.response undefined
TransportError ==
    [ok |-> FALSE, hasResponse |-> FALSE, status |-> 0,
     message |-> "connect ECONNREFUSED", data |-> NoData]

\* the acknowledgement payload of register and heartbeat is opaque
AckResponses == {OkResponse(NoData), StatusError(500), TransportError}

DiscoverResponses ==
    {OkResponse(d) : d \in DiscoverData}
        \cup {StatusError(404), StatusError(500), TransportError}

Request(kind, self, method, url, body, name) ==
    [kind |-> kind, self |-> self, method |-> method,
     url |-> url, body |-> body, name |-> name]

Pending(kind) == {r \in BagToSet(inflight) : r.kind = kind}

(* ----------------------------- outcomes -------------------------------- *)
\* how a call or a callback ended: what it returned or threw, and what it
\* wrote to console.error
NotCalled == [op |-> "none", status |-> "none", ref |-> Null, url |-> "",
              name |-> "", error |-> NoError, logged |-> ""]
Returned(op) == [NotCalled EXCEPT !.op = op, !.status = "returned"]
Thrown(op, e) == [NotCalled EXCEPT !.op = op, !.status = "thrown", !.error = e]

(* ------------------------------- Init ---------------------------------- *)
Init ==
    /\ env \in [PORT : EnvPorts, ATLAS_URI : {"..blah.."}]
    /\ instance = Null
    /\ nextObj = 1
    /\ heap = <<>>
    /\ refs = {}
    /\ initCalls = 0
    /\ inflight = EmptyBag
    /\ sent = [register |-> 0, discover |-> 0, heartbeat |-> 0]
    /\ activeTimers = {}
    /\ nextTimer = 1
    /\ urlCalls = 0
    /\ ret = NotCalled
    /\ stopFinal = FALSE
    /\ okSinceStop = FALSE
    /\ registered = 0

(* --------------------------- the singleton ----------------------------- *)
\* the constructor without its `if (!ServiceRegistryClient.instance)` guard
ConstructorNoGuard ==
    /\ nextObj <= MaxConstruct
    /\ nextObj' = nextObj + 1
    /\ heap' = heap @@ (nextObj :>
           [baseUrl |-> Prop(config, "SERVICE_REGISTRY_BASE_URI"),
            heartbeatInterval |-> 5000,
            heartbeatTimer |-> Null])
    /\ instance' = nextObj
    /\ refs' = refs \cup {instance'}
    /\ ret' = [Returned("new") EXCEPT !.ref = instance']
    /\ UNCHANGED <<env, initCalls, inflight, sent, activeTimers, nextTimer,
                   urlCalls, stopFinal, okSinceStop, registered>>

\* the constructor assigning the fields outside its guard, on the object
\* it returns
ConstructorReinit ==
    /\ nextObj <= MaxConstruct
    /\ nextObj' = nextObj + 1
    /\ instance' = IF instance = Null THEN nextObj ELSE instance
    /\ heap' = [o \in DOMAIN heap \cup {instance'} |->
                   IF o = instance'
                   THEN [baseUrl |->
                             Prop(config, "SERVICE_REGISTRY_BASE_URI"),
                         heartbeatInterval |-> 5000,
                         heartbeatTimer |-> Null]
                   ELSE heap[o]]
    /\ refs' = refs \cup {instance'}
    /\ ret' = [Returned("new") EXCEPT !.ref = instance']
    /\ UNCHANGED <<env, initCalls, inflight, sent, activeTimers, nextTimer,
                   urlCalls, stopFinal, okSinceStop, registered>>

\* new ServiceRegistryClient(): `this` is a fresh object; it is initialised
\* and published only when no instance exists, and the expression always
\* evaluates to the static instance
Constructor ==
    /\ nextObj <= MaxConstruct
    /\ nextObj' = nextObj + 1
    /\ IF instance = Null
       THEN /\ heap' = heap @@ (nextObj :>
                  [baseUrl |-> Prop(config, "SERVICE_REGISTRY_BASE_URI"),
                   heartbeatInterval |-> 5000,
                   heartbeatTimer |-> Null])
            /\ instance' = nextObj
       ELSE UNCHANGED <<heap, instance>>
    /\ refs' = refs \cup {instance'}
    /\ ret' = [Returned("new") EXCEPT !.ref = instance']
    /\ UNCHANGED <<env, initCalls, inflight, sent, activeTimers, nextTimer,
                   urlCalls, stopFinal, okSinceStop, registered>>

\* getInstance() without its check: returns the static field as it is
GetInstanceNoThrow ==
    /\ ret' = [Returned("getInstance") EXCEPT !.ref = instance]
    /\ refs' = IF instance = Null THEN refs ELSE refs \cup {instance}
    /\ UNCHANGED <<env, instance, nextObj, heap, initCalls, inflight, sent,
                   activeTimers, nextTimer, urlCalls, stopFinal,
                   okSinceStop, registered>>

\* ServiceRegistryClient.getInstance()
GetInstance ==
    /\ IF instance = Null
       THEN /\ ret' = Thrown("getInstance",
                  Error("ServiceRegistryClient used before initialization"))
            /\ refs' = refs
       ELSE /\ ret' = [Returned("getInstance") EXCEPT !.ref = instance]
            /\ refs' = refs \cup {instance}
    /\ UNCHANGED <<env, instance, nextObj, heap, initCalls, inflight, sent,
                   activeTimers, nextTimer, urlCalls, stopFinal,
                   okSinceStop, registered>>

(* ----------------------------- heartbeat ------------------------------- *)
\* #startHeartbeat() that restarts the interval when one is running
StartHeartbeatRestart(self) ==
    /\ heap' = [heap EXCEPT ![self].heartbeatTimer = nextTimer]
    /\ activeTimers' = {t \in activeTimers : t.owner # self} \cup
           {[id |-> nextTimer, owner |-> self]}
    /\ nextTimer' = nextTimer + 1

\* #startHeartbeat() without its `if (!this._heartbeatTimer)` guard
StartHeartbeatNoGuard(self) ==
    /\ heap' = [heap EXCEPT ![self].heartbeatTimer = nextTimer]
    /\ activeTimers' = activeTimers \cup {[id |-> nextTimer, owner |-> self]}
    /\ nextTimer' = nextTimer + 1

\* this.#startHeartbeat(): setInterval only when the handle is falsy
StartHeartbeat(self) ==
    IF heap[self].heartbeatTimer = Null
    THEN /\ heap' = [heap EXCEPT ![self].heartbeatTimer = nextTimer]
         /\ activeTimers' = activeTimers \cup
                {[id |-> nextTimer, owner |-> self]}
         /\ nextTimer' = nextTimer + 1
    ELSE UNCHANGED <<heap, activeTimers, nextTimer>>

\* stopHeartbeat() that forgets clearInterval and only nulls the handle
StopHeartbeatNoClear(self) ==
    /\ heap' = [heap EXCEPT ![self].heartbeatTimer = Null]
    /\ ret' = Returned("stopHeartbeat")
    /\ stopFinal' = TRUE
    /\ okSinceStop' = FALSE
    /\ UNCHANGED <<env, instance, nextObj, refs, initCalls, inflight, sent,
                   activeTimers, nextTimer, urlCalls, registered>>

\* this.stopHeartbeat(): clearInterval and null the handle when it is set
StopHeartbeat(self) ==
    /\ IF heap[self].heartbeatTimer # Null
       THEN /\ activeTimers' =
                  {t \in activeTimers : t.id # heap[self].heartbeatTimer}
            /\ heap' = [heap EXCEPT ![self].heartbeatTimer = Null]
       ELSE UNCHANGED <<heap, activeTimers>>
    /\ ret' = Returned("stopHeartbeat")
    /\ stopFinal' = TRUE
    /\ okSinceStop' = FALSE
    /\ UNCHANGED <<env, instance, nextObj, refs, initCalls, inflight, sent,
                   nextTimer, urlCalls, registered>>

\* the interval fires: the callback calls #sendHeartbeat(), which issues
\* POST {baseUrl}/heartbeat/{SERVICE_NAME} and awaits the answer
Tick(t) ==
    /\ t \in activeTimers
    /\ sent.heartbeat < MaxHeartbeats
    /\ sent' = [sent EXCEPT !.heartbeat = @ + 1]
    /\ inflight' = inflight (+) SetToBag(
          {Request("heartbeat", t.owner, "POST",
                   heap[t.owner].baseUrl \o "/heartbeat/"
                       \o Prop(config, "SERVICE_NAME"),
                   NoBody, "")})
    /\ UNCHANGED <<env, instance, nextObj, heap, refs, initCalls,
                   activeTimers, nextTimer, urlCalls, ret, stopFinal,
                   okSinceStop, registered>>

\* the interval callback without its try/catch: the rejection escapes
TickOutcomeNoCatch(resp) ==
    IF resp.ok
    THEN Returned("tick")
    ELSE Thrown("tick", Error("Error sending heartbeat: " \o resp.message))

\* how the interval callback ends for an answer to its POST: #sendHeartbeat
\* returns response.data or rethrows, and the callback's catch writes the
\* failure to console.error and swallows it
TickOutcome(resp) ==
    IF resp.ok
    THEN Returned("tick")
    ELSE [Returned("tick") EXCEPT !.logged =
             "Error sending heartbeat: " \o
             Error("Error sending heartbeat: " \o resp.message).message]

\* a callback whose catch also gives up the loop with clearInterval
HeartbeatResponseStopOnFail(req, resp) ==
    /\ req \in Pending("heartbeat")
    /\ resp \in AckResponses
    /\ inflight' = inflight (-) SetToBag({req})
    /\ ret' = [Returned("tick") EXCEPT !.logged =
                  IF resp.ok THEN "" ELSE
                  "Error sending heartbeat: Error sending heartbeat: "
                      \o resp.message]
    /\ IF resp.ok
       THEN UNCHANGED <<heap, activeTimers>>
       ELSE /\ activeTimers' = {t \in activeTimers : t.owner # req.self}
            /\ heap' = [heap EXCEPT ![req.self].heartbeatTimer = Null]
    /\ UNCHANGED <<env, instance, nextObj, refs, initCalls, sent, nextTimer,
                   urlCalls, stopFinal, okSinceStop, registered>>

\* the heartbeat POST is answered and the callback runs to its end
HeartbeatResponse(req, resp) ==
    /\ req \in Pending("heartbeat")
    /\ resp \in AckResponses
    /\ inflight' = inflight (-) SetToBag({req})
    /\ ret' = TickOutcome(resp)
    /\ UNCHANGED <<env, instance, nextObj, heap, refs, initCalls, sent,
                   activeTimers, nextTimer, urlCalls, stopFinal,
                   okSinceStop, registered>>

(* ---------------------------- registration ----------------------------- *)
\* initialise() that skips the POST once the service has been registered
InitialiseOnce(self) ==
    /\ initCalls < MaxInit
    /\ initCalls' = initCalls + 1
    /\ IF registered > 0
       THEN /\ ret' = Returned("initialise")
            /\ UNCHANGED <<sent, inflight>>
       ELSE /\ sent' = [sent EXCEPT !.register = @ + 1]
            /\ inflight' = inflight (+) SetToBag(
                  {Request("register", self, "POST",
                           heap[self].baseUrl \o "/register",
                           [serviceName |-> Prop(config, "SERVICE_NAME"),
                            host |-> Prop(config, "SERVICE_HOST"),
                            port |-> Prop(config, "PORT"),
                            metadata |-> {}],
                           "")})
            /\ ret' = ret
    /\ stopFinal' = FALSE
    /\ UNCHANGED <<env, instance, nextObj, heap, refs, activeTimers,
                   nextTimer, urlCalls, okSinceStop, registered>>

\* initialise() that does not await #registerService before #startHeartbeat
InitialiseNoAwait(self) ==
    /\ initCalls < MaxInit
    /\ initCalls' = initCalls + 1
    /\ sent' = [sent EXCEPT !.register = @ + 1]
    /\ inflight' = inflight (+) SetToBag(
          {Request("register", self, "POST",
                   heap[self].baseUrl \o "/register",
                   [serviceName |-> Prop(config, "SERVICE_NAME"),
                    host |-> Prop(config, "SERVICE_HOST"),
                    port |-> Prop(config, "PORT"),
                    metadata |-> {}],
                   "")})
    /\ StartHeartbeat(self)
    /\ stopFinal' = FALSE
    /\ UNCHANGED <<env, instance, nextObj, refs, urlCalls, ret, okSinceStop,
                   registered>>

\* this.initialise() up to its await: #registerService builds the body and
\* issues POST {baseUrl}/register
Initialise(self) ==
    /\ initCalls < MaxInit
    /\ initCalls' = initCalls + 1
    /\ sent' = [sent EXCEPT !.register = @ + 1]
    /\ inflight' = inflight (+) SetToBag(
          {Request("register", self, "POST",
                   heap[self].baseUrl \o "/register",
                   [serviceName |-> Prop(config, "SERVICE_NAME"),
                    host |-> Prop(config, "SERVICE_HOST"),
                    port |-> Prop(config, "PORT"),
                    metadata |-> {}],
                   "")})
    /\ stopFinal' = FALSE
    /\ UNCHANGED <<env, instance, nextObj, heap, refs, activeTimers,
                   nextTimer, urlCalls, ret, okSinceStop,
                   registered>>

\* initialise() that registers and forgets #startHeartbeat()
RegisterResponseNoStart(req, resp) ==
    /\ req \in Pending("register")
    /\ resp \in AckResponses
    /\ inflight' = inflight (-) SetToBag({req})
    /\ IF resp.ok
       THEN /\ ret' = Returned("initialise")
            /\ okSinceStop' = TRUE
            /\ registered' = registered + 1
       ELSE /\ ret' = Thrown("initialise",
                  Error("Error registering service: " \o resp.message))
            /\ UNCHANGED <<okSinceStop, registered>>
    /\ UNCHANGED <<env, instance, nextObj, heap, refs, initCalls, sent,
                   activeTimers, nextTimer, urlCalls, stopFinal>>

\* initialise() with #startHeartbeat() in a finally block
RegisterResponseAlwaysStart(req, resp) ==
    /\ req \in Pending("register")
    /\ resp \in AckResponses
    /\ inflight' = inflight (-) SetToBag({req})
    /\ StartHeartbeat(req.self)
    /\ IF resp.ok
       THEN /\ ret' = Returned("initialise")
            /\ okSinceStop' = TRUE
            /\ registered' = registered + 1
       ELSE /\ ret' = Thrown("initialise",
                  Error("Error registering service: " \o resp.message))
            /\ UNCHANGED <<okSinceStop, registered>>
    /\ UNCHANGED <<env, instance, nextObj, refs, initCalls, sent, urlCalls,
                   stopFinal>>

\* the register POST is answered: on 2xx initialise() goes on to
\* #startHeartbeat(); otherwise #registerService rethrows and initialise()
\* rejects without reaching it
RegisterResponse(req, resp) ==
    /\ req \in Pending("register")
    /\ resp \in AckResponses
    /\ inflight' = inflight (-) SetToBag({req})
    /\ IF resp.ok
       THEN /\ StartHeartbeat(req.self)
            /\ ret' = Returned("initialise")
            /\ okSinceStop' = TRUE
            /\ registered' = registered + 1
       ELSE /\ ret' = Thrown("initialise",
                  Error("Error registering service: " \o resp.message))
            /\ UNCHANGED <<heap, activeTimers, nextTimer, okSinceStop,
                           registered>>
    /\ UNCHANGED <<env, instance, nextObj, refs, initCalls, sent, urlCalls,
                   stopFinal>>

(* ----------------------------- resolution ------------------------------ *)
\* getUrl() answering from the last resolution of the same name
GetUrlCached(self, serviceName) ==
    /\ urlCalls < MaxGetUrl
    /\ urlCalls' = urlCalls + 1
    /\ IF ret.op = "getUrl" /\ ret.status = "returned"
             /\ ret.name = serviceName
       THEN UNCHANGED <<sent, inflight>>
       ELSE /\ sent' = [sent EXCEPT !.discover = @ + 1]
            /\ inflight' = inflight (+) SetToBag(
                  {Request("discover", self, "GET",
                           heap[self].baseUrl \o "/discover/" \o serviceName,
                           NoBody, serviceName)})
    /\ UNCHANGED <<env, instance, nextObj, heap, refs, initCalls,
                   activeTimers, nextTimer, ret, stopFinal,
                   okSinceStop, registered>>

\* this.getUrl(serviceName) up to its await: GET {baseUrl}/discover/{name}
GetUrl(self, serviceName) ==
    /\ urlCalls < MaxGetUrl
    /\ urlCalls' = urlCalls + 1
    /\ sent' = [sent EXCEPT !.discover = @ + 1]
    /\ inflight' = inflight (+) SetToBag(
          {Request("discover", self, "GET",
                   heap[self].baseUrl \o "/discover/" \o serviceName,
                   NoBody, serviceName)})
    /\ UNCHANGED <<env, instance, nextObj, heap, refs, initCalls,
                   activeTimers, nextTimer, ret, stopFinal,
                   okSinceStop, registered>>

\* getUrl() rendering the endpoint without its scheme
GetUrlOutcomeNoScheme(serviceName, resp) ==
    IF resp.ok
    THEN [Returned("getUrl") EXCEPT !.name = serviceName, !.url =
             resp.data.host \o ":" \o ToString(resp.data.port)]
    ELSE IF resp.hasResponse /\ resp.status = 404
         THEN [Thrown("getUrl",
                  CustomError("Service " \o serviceName \o " not found",
                              500, TRUE))
               EXCEPT !.name = serviceName]
         ELSE [Thrown("getUrl",
                  Error("Error discovering service: " \o resp.message))
               EXCEPT !.name = serviceName]

\* getUrl() testing error.status, which axios never sets, for the 404
GetUrlOutcomeNo404(serviceName, resp) ==
    IF resp.ok
    THEN [Returned("getUrl") EXCEPT !.name = serviceName, !.url =
             "http://" \o resp.data.host \o ":" \o ToString(resp.data.port)]
    ELSE [Thrown("getUrl",
             Error("Error discovering service: " \o resp.message))
          EXCEPT !.name = serviceName]

\* what getUrl(serviceName) settles with for an answer of the registry
GetUrlOutcome(serviceName, resp) ==
    IF resp.ok
    THEN [Returned("getUrl") EXCEPT !.name = serviceName, !.url =
             "http://" \o resp.data.host \o ":" \o ToString(resp.data.port)]
    ELSE IF resp.hasResponse /\ resp.status = 404
         THEN [Thrown("getUrl",
                  CustomError("Service " \o serviceName \o " not found",
                              500, TRUE))
               EXCEPT !.name = serviceName]
         ELSE [Thrown("getUrl",
                  Error("Error discovering service: " \o resp.message))
               EXCEPT !.name = serviceName]

\* getUrl() giving up the heartbeat when the registry cannot be reached
DiscoverResponseStopsOnFail(req, resp) ==
    /\ req \in Pending("discover")
    /\ resp \in DiscoverResponses
    /\ inflight' = inflight (-) SetToBag({req})
    /\ ret' = GetUrlOutcome(req.name, resp)
    /\ IF resp.ok \/ resp.hasResponse
       THEN UNCHANGED <<heap, activeTimers>>
       ELSE /\ activeTimers' = {t \in activeTimers : t.owner # req.self}
            /\ heap' = [heap EXCEPT ![req.self].heartbeatTimer = Null]
    /\ UNCHANGED <<env, instance, nextObj, refs, initCalls, sent, nextTimer,
                   urlCalls, stopFinal, okSinceStop, registered>>

\* the discovery GET is answered
DiscoverResponse(req, resp) ==
    /\ req \in Pending("discover")
    /\ resp \in DiscoverResponses
    /\ inflight' = inflight (-) SetToBag({req})
    /\ ret' = GetUrlOutcome(req.name, resp)
    /\ UNCHANGED <<env, instance, nextObj, heap, refs, initCalls, sent,
                   activeTimers, nextTimer, urlCalls, stopFinal,
                   okSinceStop, registered>>

(* --------------------------- specification ----------------------------- *)
Next ==
    \/ Constructor
    \/ GetInstance
    \/ \E self \in refs : Initialise(self)
    \/ \E req \in BagToSet(inflight), resp \in AckResponses :
           RegisterResponse(req, resp)
    \/ \E self \in refs : StopHeartbeat(self)
    \/ \E t \in activeTimers : Tick(t)
    \/ \E req \in BagToSet(inflight), resp \in AckResponses :
           HeartbeatResponse(req, resp)
    \/ \E self \in refs, name \in ServiceNames : GetUrl(self, name)
    \/ \E req \in BagToSet(inflight), resp \in DiscoverResponses :
           DiscoverResponse(req, resp)

Spec == Init /\ [][Next]_vars

\* the heartbeat interval of the runtime fires again and again while it is
\* scheduled (timers phase of the event loop)
Ticks == \E t \in activeTimers : Tick(t)

LiveSpec == Init /\ [][Next]_vars /\ WF_vars(Ticks)

(* ------------------------------ properties ----------------------------- *)
NotInitializedError ==
    Error("ServiceRegistryClient used before initialization")

RegistrationError(resp) ==
    Error("Error registering service: " \o resp.message)

\* C1 - singleton uniqueness: at most one object is ever initialised as a
\* client, it is the one the first construction allocated, and every
\* reference handed out by new or getInstance() is that object
C1_SingletonUnique ==
    /\ Cardinality(DOMAIN heap) <= 1
    /\ nextObj > 1 => instance = 1 /\ DOMAIN heap = {1}
    /\ nextObj = 1 => instance = Null /\ heap = <<>>
    /\ refs \subseteq {instance} \ {Null}
    /\ ret.op = "new" => ret.ref = instance /\ ret.status = "returned"

C1_Witness ==
    nextObj > 2 /\ ret.op = "new" /\ ret.ref = 1 /\ refs = {1}

\* C2 - getInstance() throws the not-initialised error and changes nothing
\* when no instance exists, and returns the existing instance otherwise
C2_GetInstance ==
    [][GetInstance =>
         IF instance = Null
         THEN /\ ret' = Thrown("getInstance", NotInitializedError)
              /\ UNCHANGED <<instance, heap, refs, nextObj>>
         ELSE /\ ret' = [Returned("getInstance") EXCEPT !.ref = instance]
              /\ instance \in DOMAIN heap
              /\ UNCHANGED <<instance, heap, nextObj>>]_vars

C2_Witness ==
    ret = Thrown("getInstance", NotInitializedError) /\ instance = Null

\* C3 - every instance has at most one scheduled interval, and it is the
\* one its handle names: no start ever leaves a second or an orphaned timer
C3_OneTimer ==
    \A o \in DOMAIN heap :
        LET mine == {t \in activeTimers : t.owner = o}
        IN  /\ Cardinality(mine) <= 1
            /\ mine = IF heap[o].heartbeatTimer = Null
                      THEN {}
                      ELSE {[id |-> heap[o].heartbeatTimer, owner |-> o]}

C3_Witness ==
    /\ registered >= 2
    /\ nextTimer = 2
    /\ nextObj > 2
    /\ sent.heartbeat > 0
    /\ Cardinality(activeTimers) = 1

\* C4 - registration gating: an initialise() whose register POST fails
\* rejects with the registration error and neither its call nor its
\* completion touches the timer handle or schedules or posts anything
C4_RegistrationGating ==
    [][/\ \A req \in BagToSet(inflight), resp \in AckResponses :
             (RegisterResponse(req, resp) /\ ~resp.ok) =>
                 /\ ret' = Thrown("initialise", RegistrationError(resp))
                 /\ UNCHANGED <<heap, activeTimers, nextTimer, sent>>
       /\ \A self \in refs :
             Initialise(self) =>
                 /\ UNCHANGED <<heap, activeTimers, nextTimer>>
                 /\ sent'.heartbeat = sent.heartbeat]_vars

C4_Witness ==
    /\ ret.op = "initialise"
    /\ ret.status = "thrown"
    /\ registered = 0
    /\ Pending("register") = {}
    /\ activeTimers = {}
    /\ sent.heartbeat = 0

\* C5 - registration precedes heartbeat: a set handle, a scheduled interval
\* or an issued heartbeat POST implies a register POST answered with 2xx
C5_RegisterFirst ==
    (\/ activeTimers # {}
     \/ sent.heartbeat > 0
     \/ \E o \in DOMAIN heap : heap[o].heartbeatTimer # Null)
        => registered > 0

C5_Witness ==
    registered > 0 /\ sent.heartbeat > 0 /\ activeTimers # {}

\* C6 - stop is final: after stopHeartbeat(), and until initialise() is
\* invoked again, the state is idle (so no heartbeat POST can be issued)
C6_StopIsFinal ==
    stopFinal => activeTimers = {}

\* C7 - stopHeartbeat() cancels the instance's interval and clears the
\* handle, returns normally, touches nothing else, and is a no-op when idle
C7_StopHeartbeat ==
    [][\A self \in refs :
         StopHeartbeat(self) =>
             /\ heap' = [heap EXCEPT ![self].heartbeatTimer = Null]
             /\ activeTimers' = {t \in activeTimers : t.owner # self}
             /\ ret' = Returned("stopHeartbeat")
             /\ UNCHANGED <<env, instance, nextObj, refs, initCalls,
                            inflight, sent, nextTimer, urlCalls, registered>>
             /\ heap[self].heartbeatTimer = Null =>
                    UNCHANGED <<heap, activeTimers>>]_vars

C7_Witness ==
    /\ stopFinal
    /\ ret.op = "stopHeartbeat"
    /\ registered > 0
    /\ nextTimer > 1
    /\ activeTimers = {}

\* C8 - heartbeat resilience: a failed heartbeat POST ends the callback
\* normally with one console.error line, and leaves the handle and the
\* scheduled interval as they were
C8_TickFailureSwallowed ==
    [][\A req \in BagToSet(inflight), resp \in AckResponses :
         (HeartbeatResponse(req, resp) /\ ~resp.ok) =>
             /\ ret'.op = "tick"
             /\ ret'.status = "returned"
             /\ ret'.error = NoError
             /\ ret'.logged =
                    "Error sending heartbeat: Error sending heartbeat: "
                        \o resp.message
             /\ UNCHANGED <<heap, activeTimers, nextTimer>>]_vars

C8_Witness ==
    ret.op = "tick" /\ ret.logged # "" /\ activeTimers # {}

\* C9 - heartbeat liveness: once an initialise() has succeeded, under a fair
\* timer heartbeat POSTs keep being issued, up to the bound of the model,
\* unless stopHeartbeat() is called, whatever earlier ticks did
C9_HeartbeatLiveness ==
    okSinceStop ~> (sent.heartbeat = MaxHeartbeats \/ ~okSinceStop)

C9_Witness ==
    /\ okSinceStop
    /\ sent.heartbeat >= 2
    /\ ret.op = "tick"
    /\ ret.logged # ""
    /\ Pending("heartbeat") # {}

\* C10 - not-found classification: a 404 answer makes getUrl throw the
\* operational CustomError naming the service; every other failure makes it
\* throw a plain Error with the discovery prefix; neither yields a URL
C10_NotFoundClassification ==
    [][\A req \in BagToSet(inflight), resp \in DiscoverResponses :
         (DiscoverResponse(req, resp) /\ ~resp.ok) =>
             /\ ret'.op = "getUrl"
             /\ ret'.status = "thrown"
             /\ ret'.url = ""
             /\ ret'.name = req.name
             /\ IF resp.hasResponse /\ resp.status = 404
                THEN /\ ret'.error.name = "CustomError"
                     /\ IsOperational(ret'.error)
                     /\ ret'.error.message =
                            "Service " \o req.name \o " not found"
                ELSE /\ ret'.error.name = "Error"
                     /\ ~IsOperational(ret'.error)
                     /\ ret'.error.message =
                            "Error discovering service: " \o resp.message]_vars

C10_Witness ==
    /\ ret.op = "getUrl"
    /\ ret.status = "thrown"
    /\ IsOperational(ret.error)
    /\ ret.name = "orders"

\* the register request #registerService issues for the instance
RegisterRequest(self) ==
    Request("register", self, "POST", heap[self].baseUrl \o "/register",
            [serviceName |-> Prop(config, "SERVICE_NAME"),
             host |-> Prop(config, "SERVICE_HOST"),
             port |-> env.PORT,
             metadata |-> {}],
            "")

\* C11 - no caching, no retries: every getUrl() call issues exactly one
\* GET {baseUrl}/discover/{name}, its answer issues none, and the number of
\* discovery requests equals the number of getUrl() calls started
C11_OneDiscoverPerResolve ==
    [][/\ sent.discover = urlCalls => sent'.discover = urlCalls'
       /\ \A self \in refs, name \in ServiceNames :
             GetUrl(self, name) =>
                 /\ sent' = [sent EXCEPT !.discover = @ + 1]
                 /\ \E r \in BagToSet(inflight') :
                       /\ r.kind = "discover"
                       /\ r.method = "GET"
                       /\ r.url = heap[self].baseUrl \o "/discover/"
                                      \o name
                       /\ inflight' = inflight (+) SetToBag({r})
       /\ \A req \in BagToSet(inflight), resp \in DiscoverResponses :
             DiscoverResponse(req, resp) =>
                 /\ sent' = sent
                 /\ urlCalls' = urlCalls
                 /\ inflight' = inflight (-) SetToBag({req})]_vars

C11_Witness ==
    /\ urlCalls = 2
    /\ sent.discover = 2
    /\ ret.op = "getUrl"
    /\ ret.status = "returned"
    /\ \E r \in Pending("discover") : r.name = ret.name

\* C12 - registration is neither deduplicated nor retried: every
\* initialise() call issues exactly one POST {baseUrl}/register with the
\* body {serviceName, host, port, metadata} read from config, whatever
\* happened before, and a failed POST only rejects that call
C12_OneRegisterPerInitialise ==
    [][/\ sent.register = initCalls => sent'.register = initCalls'
       /\ \A self \in refs :
             Initialise(self) =>
                 /\ sent' = [sent EXCEPT !.register = @ + 1]
                 /\ inflight' = inflight (+)
                        SetToBag({RegisterRequest(self)})
                 /\ DOMAIN RegisterRequest(self).body =
                        {"serviceName", "host", "port", "metadata"}
       /\ \A req \in BagToSet(inflight), resp \in AckResponses :
             (RegisterResponse(req, resp) /\ ~resp.ok) =>
                 /\ sent' = sent
                 /\ initCalls' = initCalls
                 /\ inflight' = inflight (-) SetToBag({req})
                 /\ ret' = Thrown("initialise",
                                  RegistrationError(resp))]_vars

C12_Witness ==
    /\ initCalls = 2
    /\ sent.register = 2
    /\ registered = 1
    /\ \E r \in Pending("register") : r.method = "POST"

\* C13 - resolution mapping: a 2xx discovery answer {host, port} makes
\* getUrl return exactly http://{host}:{port}, whatever name was asked for
C13_ResolutionMapping ==
    [][\A req \in BagToSet(inflight), resp \in DiscoverResponses :
         (DiscoverResponse(req, resp) /\ resp.ok) =>
             /\ ret'.op = "getUrl"
             /\ ret'.status = "returned"
             /\ ret'.error = NoError
             /\ ret'.url = "http://" \o resp.data.host \o ":"
                               \o ToString(resp.data.port)
             /\ (resp.data.host = "10.0.0.5" /\ resp.data.port = 8080) =>
                    ret'.url = "http://10.0.0.5:8080"]_vars

C13_Witness ==
    /\ ret.op = "getUrl"
    /\ ret.name = "orders"
    /\ ret.url = "http://10.0.0.5:8080"

\* C14 - a successful initialise() ends running: when the register POST of
\* an initialise() call is answered with 2xx, the call completes with
\* exactly one interval scheduled for its instance, named by the handle
C14_SuccessEndsRunning ==
    [][\A req \in BagToSet(inflight), resp \in AckResponses :
         (RegisterResponse(req, resp) /\ resp.ok) =>
             /\ ret' = Returned("initialise")
             /\ heap'[req.self].heartbeatTimer # Null
             /\ {t \in activeTimers' : t.owner = req.self} =
                    {[id |-> heap'[req.self].heartbeatTimer,
                      owner |-> req.self]}]_vars

C14_Witness ==
    /\ ret = Returned("initialise")
    /\ stopFinal
    /\ initCalls = 2
    /\ Cardinality(activeTimers) = 1

\* C15 - re-construction is a pure lookup: a constructor call made when the
\* instance exists returns it and leaves its fields, the scheduled
\* intervals and the requests as they were, so the handle still names the
\* running interval
C15_ReconstructionIsLookup ==
    [][(Constructor /\ instance # Null) =>
          /\ ret' = [Returned("new") EXCEPT !.ref = instance]
          /\ UNCHANGED <<instance, heap, activeTimers, nextTimer, inflight,
                         sent, env>>
          /\ \A t \in activeTimers' :
                heap'[t.owner].heartbeatTimer = t.id]_vars

C15_Witness ==
    /\ ret.op = "new"
    /\ nextObj > 2
    /\ activeTimers # {}
    /\ \A t \in activeTimers : heap[t.owner].heartbeatTimer = t.id

\* C16 - resolution does not touch the heartbeat: neither the call nor the
\* completion of getUrl() changes the handle, the scheduled intervals, the
\* singleton, the configuration or the register and heartbeat requests
C16_ResolveFrame ==
    [][LET Frame ==
               /\ UNCHANGED <<heap, activeTimers, nextTimer, instance, refs,
                              env, initCalls, registered>>
               /\ sent'.register = sent.register
               /\ sent'.heartbeat = sent.heartbeat
               /\ \A r \in BagToSet(inflight) \cup BagToSet(inflight') :
                      r.kind # "discover" =>
                          CopiesIn(r, inflight') = CopiesIn(r, inflight)
       IN  /\ \A self \in refs, name \in ServiceNames :
                 GetUrl(self, name) => Frame
           /\ \A req \in BagToSet(inflight), resp \in DiscoverResponses :
                 DiscoverResponse(req, resp) => Frame]_vars

C16_Witness ==
    /\ ret.op = "getUrl"
    /\ ret.status = "thrown"
    /\ ~ret.error.name = "CustomError"
    /\ activeTimers # {}
    /\ Pending("heartbeat") # {}

\* C17 - re-initialisation of a running instance: an initialise() called
\* while the heartbeat runs posts another register request, and neither
\* the call nor its answer, 2xx or not, changes the handle or the scheduled
\* interval; a failure only rejects the call
C17_ReinitialiseKeepsTimer ==
    [][/\ \A self \in refs :
             (Initialise(self) /\ heap[self].heartbeatTimer # Null) =>
                 /\ sent'.register = sent.register + 1
                 /\ UNCHANGED <<heap, activeTimers, nextTimer>>
       /\ \A req \in BagToSet(inflight), resp \in AckResponses :
             (RegisterResponse(req, resp)
                  /\ heap[req.self].heartbeatTimer # Null) =>
                 /\ UNCHANGED <<heap, activeTimers, nextTimer>>
                 /\ ~resp.ok =>
                        ret' = Thrown("initialise",
                                      RegistrationError(resp))]_vars

C17_Witness ==
    /\ ret.op = "initialise"
    /\ ret.status = "thrown"
    /\ registered = 1
    /\ okSinceStop
    /\ initCalls = 2
    /\ nextTimer = 2
    /\ Cardinality(activeTimers) = 1
====
